---- MODULE Spec2Model ----
(***************************************************************************)
(* PoweredDynamo (src/src/powered-dynamo.class.ts): a retry and batching   *)
(* layer in front of a DynamoDB document client.                           *)
(*                                                                         *)
(* Spec       the facade's retry machine: put / update / delete,           *)
(*            batchWrite and transactWrite against a store whose calls     *)
(*            succeed or fail nondeterministically, with the public field  *)
(*            retryWaitTimes replaceable at any moment.                    *)
(* SpecSplit  splitBatchWriteRequestsInChunks as a pure function of a      *)
(*            bounded family of batch-write requests.                      *)
(* SpecGet    getList: deduplication, the concurrent batched-get groups    *)
(*            and the assembly of the result map.                          *)
(***************************************************************************)
EXTENDS Integers, Sequences, FiniteSets, TLC

VARIABLES
    retryWaitTimes,  \* this.retryWaitTimes, the public schedule field
    op,              \* the top-level call in progress (or last finished)
    pc,              \* "idle", "store" (awaiting the store), "wait" (backoff), "done"
    stack,           \* the live retryError frames, outermost first
    result,          \* the promise of the top-level call
    events,          \* what the call did so far: store calls, answers, emits, waits
    request,         \* RequestItems of the caller's batch-write request object
    batches,         \* the batches batchWrite iterates over
    batchIdx,        \* the batch batchWrite is sending (1-based), 0 outside batchWrite
    startSchedule,   \* history: retryWaitTimes when the top-level call started
    changes,         \* history: replacements of retryWaitTimes while the call was in flight
    startRequest,    \* history: RequestItems of the request batchWrite was called with
    glKeys,          \* getList: the caller's key list
    glTable,         \* getList: the items the store holds
    glUnique,        \* getList: uniqueKeys
    glGroups,        \* getList: per group, "none" | "sent" | "ok" | "failed"
    glResult,        \* getList: the result Map, by position in the key list
    glPc,            \* getList: "idle" | "running" | "resolved" | "rejected"
    glError,         \* getList: the error the call was rejected with
    glCalls,         \* getList: the key lists of the batchGet calls issued, in order
    cntSelect,       \* scanCount / queryCount: input.Select
    cntPages,        \* scanCount / queryCount: the responses the generator yields
    cntIdx,          \* scanCount / queryCount: the responses consumed so far
    count            \* sumCountResponses: the local `count`

retryVars == <<retryWaitTimes, op, pc, stack, result, events, request, batches,
               batchIdx, startSchedule, changes, startRequest>>
glVars == <<glKeys, glTable, glUnique, glGroups, glResult, glPc, glError, glCalls>>
cntVars == <<cntSelect, cntPages, cntIdx, count>>
vars == <<retryVars, glVars, cntVars>>

----------------------------------------------------------------------------
(* Program constants *)

maxBatchWriteElems == 25
maxBatchGetElems == 100

DefaultRetryWaitTimes == <<100, 500, 1000>>

(* Bounds of the model *)

\* longest schedule a caller assigns to retryWaitTimes
MaxScheduleLen == 2
\* most replacements of retryWaitTimes while one call is in flight
MaxChanges == 1
\* most write entries per table in the requests SpecSplit draws
MaxPerTable == 26
\* most distinct keys in the key lists SpecGet draws
MaxKeys == 201
\* most keys a key list of SpecGet repeats
MaxRepeats == 2
\* most responses the generator of a count call yields
MaxPages == 3

----------------------------------------------------------------------------
(* Errors.  An error value is what the classifiers can see of it: whether  *)
(* it is an instance of Error, its name, and its message, kept as the      *)
(* sequence of cancellation-reason codes the message lists.                *)

Err(isErr, name, message) == [isError |-> isErr, name |-> name, message |-> message]

InternalServerError == Err(TRUE, "InternalServerError", <<>>)
\* an object with the right name that is no instance of Error
PlainInternalServerError == Err(FALSE, "InternalServerError", <<>>)
ValidationException == Err(TRUE, "ValidationException", <<>>)
TransactionCanceled(reasons) == Err(TRUE, "TransactionCanceledException", reasons)

\* new MaxRetriesReached(): constructed without arguments
MaxRetriesReached == Err(TRUE, "MaxRetriesReached", <<>>)

\* the cancellation reasons a TransactionCanceledException message lists
CancellationReasons ==
    { <<"TransactionConflict">>,
      <<"ConditionalCheckFailed">>,
      <<"ConditionalCheckFailed", "TransactionConflict">>,
      <<"None", "ConditionalCheckFailed", "TransactionConflict">>,
      <<"TransactionConflict", "ConditionalCheckFailed">> }

\* the errors the store answers a call with
StoreErrors ==
    { InternalServerError, PlainInternalServerError, ValidationException }
    \cup { TransactionCanceled(r) : r \in CancellationReasons }

\* /code/.test(message)
Test(code, message) == \E i \in 1..Len(message) : message[i] = code

isInternalServerError(error) ==
    error.isError /\ error.name = "InternalServerError"

isRetryableTransactionErrorNoConditionCheck(err) ==
    /\ err.isError
    /\ err.name = "TransactionCanceledException"
    /\ Test("TransactionConflict", err.message)

\* the conflict classifier accepting the inner loop's MaxRetriesReached as well
isRetryableTransactionErrorOrMaxRetries(err) ==
    \/ err.isError /\ err.name = "MaxRetriesReached"
    \/ /\ err.isError
       /\ err.name = "TransactionCanceledException"
       /\ ~Test("ConditionalCheckFailed", err.message)
       /\ Test("TransactionConflict", err.message)

isRetryableTransactionError(err) ==
    /\ err.isError
    /\ err.name = "TransactionCanceledException"
    /\ ~Test("ConditionalCheckFailed", err.message)
    /\ Test("TransactionConflict", err.message)

----------------------------------------------------------------------------
(* splitBatchWriteRequestsInChunks.  A RequestItems object is the sequence *)
(* of its properties in Object.keys order, each [table, items].            *)

RECURSIVE FlattenItems(_, _, _)
\* the inner loop of lines 21-23: push {tableName, request} for each item
FlattenItems(tableName, items, i) ==
    IF i > Len(items) THEN <<>>
    ELSE <<[tableName |-> tableName, request |-> items[i]]>>
         \o FlattenItems(tableName, items, i + 1)

RECURSIVE Flatten(_, _)
\* the outer loop of lines 20-24 from property k on
Flatten(requestItems, k) ==
    IF k > Len(requestItems) THEN <<>>
    ELSE FlattenItems(requestItems[k].table, requestItems[k].items, 1)
         \o Flatten(requestItems, k + 1)

\* the new request put in front: [request, ...(batchRequestMap[t] || [])]
AddToBatchInFront(batchRequestMap, itemRequest) ==
    IF \E j \in 1..Len(batchRequestMap) : batchRequestMap[j].table = itemRequest.tableName
    THEN LET j == CHOOSE j \in 1..Len(batchRequestMap) :
                      batchRequestMap[j].table = itemRequest.tableName
         IN  [batchRequestMap EXCEPT ![j].items = <<itemRequest.request>> \o @]
    ELSE Append(batchRequestMap,
                [table |-> itemRequest.tableName, items |-> <<itemRequest.request>>])

\* line 28: batchRequestMap[t] = [...(batchRequestMap[t] || []), request]
AddToBatch(batchRequestMap, itemRequest) ==
    IF \E j \in 1..Len(batchRequestMap) : batchRequestMap[j].table = itemRequest.tableName
    THEN LET j == CHOOSE j \in 1..Len(batchRequestMap) :
                      batchRequestMap[j].table = itemRequest.tableName
         IN  [batchRequestMap EXCEPT ![j].items = Append(@, itemRequest.request)]
    ELSE Append(batchRequestMap,
                [table |-> itemRequest.tableName, items |-> <<itemRequest.request>>])

RECURSIVE BuildBatch(_, _, _)
\* the loop of lines 27-29 over a slice
BuildBatch(slice, j, batchRequestMap) ==
    IF j > Len(slice) THEN batchRequestMap
    ELSE BuildBatch(slice, j + 1, AddToBatch(batchRequestMap, slice[j]))

Min(a, b) == IF a < b THEN a ELSE b

\* requests.slice(i, i + size), i 0-based
Slice(requests, i, size) == SubSeq(requests, i + 1, Min(i + size, Len(requests)))

RECURSIVE Chunks(_, _, _)
\* the loop of lines 25-31 from offset i on
Chunks(requests, i, size) ==
    IF i >= Len(requests) THEN <<>>
    ELSE <<BuildBatch(Slice(requests, i, size), 1, <<>>)>>
         \o Chunks(requests, i + size, size)

\* chunks one entry too long
splitWithOverlongChunks(requestItems) ==
    Chunks(Flatten(requestItems, 1), 0, maxBatchWriteElems + 1)

splitBatchWriteRequestsInChunks(requestItems) ==
    Chunks(Flatten(requestItems, 1), 0, maxBatchWriteElems)

----------------------------------------------------------------------------
(* The retry executor *)

Ev(type, arg) == [type |-> type, arg |-> arg]

Undefined == [undefined |-> TRUE]
Pending == [status |-> "pending", value |-> Undefined]
Resolved(v) == [status |-> "resolved", value |-> v]
Rejected(e) == [status |-> "rejected", value |-> e]

Frame(cls, tryCount) == [cls |-> cls, tryCount |-> tryCount]

\* the classifier a frame was started with
Classify(cls, error) ==
    IF cls = "transaction" THEN isRetryableTransactionError(error)
    ELSE isInternalServerError(error)

\* gives up one slot early
NoWaitTimeAtLastSlot(schedule, tryCount) == tryCount + 1 >= Len(schedule)

\* this.retryWaitTimes[tryCount] === undefined, tryCount 0-based
NoWaitTimeAt(schedule, tryCount) == tryCount + 1 > Len(schedule)

\* a non-retryable error rethrown wrapped
RethrownAsMaxRetries(error) == MaxRetriesReached

\* line 174: throw error
Rethrown(error) == error

\* the notification left out
EmitNothing(evs, error) == evs

\* line 166: this.eventEmitter.emit(EventType.retryableError, error)
Emit(evs, error) == Append(evs, Ev("emit", error))

RECURSIVE retryErrorCatch(_, _, _, _)
\* The catch block of retryError in the innermost live frame, and, when it
\* throws, the catch blocks of the frames around it.
retryErrorCatch(frames, error, evs, schedule) ==
    IF frames = <<>>
    THEN [stack |-> <<>>, events |-> evs, pc |-> "done", result |-> Rejected(error)]
    ELSE LET f == frames[Len(frames)]
             outer == SubSeq(frames, 1, Len(frames) - 1)
         IN  IF Classify(f.cls, error)
             THEN LET emitted == Emit(evs, error)
                  IN  IF NoWaitTimeAt(schedule, f.tryCount)
                      THEN retryErrorCatch(outer, MaxRetriesReached, emitted, schedule)
                      ELSE [stack |-> frames,
                            events |-> Append(emitted, Ev("wait", schedule[f.tryCount + 1])),
                            pc |-> "wait",
                            result |-> Pending]
             ELSE retryErrorCatch(outer, Rethrown(error), evs, schedule)

\* the inner loop started at the outer loop's tryCount
FramesForSharedIndex(o, n) ==
    IF o = "transactWrite"
    THEN <<Frame("transaction", n), Frame("server", n)>>
    ELSE <<Frame("server", n)>>

\* the frames live while the raw store call of `o` runs, the outermost at tryCount n
FramesFor(o, n) ==
    IF o = "transactWrite"
    THEN <<Frame("transaction", n), Frame("server", 0)>>
    ELSE <<Frame("server", n)>>

\* the number of store calls the log holds
NumCalls(evs) == Cardinality({i \in 1..Len(evs) : evs[i].type = "call"})

----------------------------------------------------------------------------
(* Inputs of the retry machine *)

SingleOps == {"put", "update", "delete"}

\* the schedules a caller assigns: <<>>, <<1>>, <<1, 2>>, ..., and the default
Schedules == { [i \in 1..n |-> i] : n \in 0..MaxScheduleLen } \cup {DefaultRetryWaitTimes}

Tables == <<"A", "B", "C">>

\* the items of table number t: `len` entries, distinct over all tables
ItemsOf(t, len) == [i \in 1..len |-> 100 * t + i]

\* a request over the tables in the order `order`, table t with lens[t] entries
MkRequest(order, lens) ==
    [k \in 1..Len(order) |-> [table |-> Tables[order[k]], items |-> ItemsOf(order[k], lens[order[k]])]]

\* the requests batchWrite is called with in Spec: none, one, two and three batches
BatchWriteInputs ==
    { MkRequest(<<1, 2>>, l) : l \in { <<0, 0>>, <<3, 0>>, <<20, 10>>, <<26, 26>> } }

----------------------------------------------------------------------------
(* Spec: the retry machine *)

glIdle ==
    /\ glKeys = <<>>
    /\ glTable = {}
    /\ glUnique = <<>>
    /\ glGroups = <<>>
    /\ glResult = <<>>
    /\ glPc = "idle"
    /\ glError = Undefined
    /\ glCalls = <<>>

retryIdle ==
    /\ retryWaitTimes = DefaultRetryWaitTimes
    /\ op = "none"
    /\ pc = "idle"
    /\ stack = <<>>
    /\ result = Pending
    /\ events = <<>>
    /\ request = <<>>
    /\ batches = <<>>
    /\ batchIdx = 0
    /\ startSchedule = DefaultRetryWaitTimes
    /\ changes = 0
    /\ startRequest = <<>>

\* input.Select of an input that has none
NoSelect == "(undefined)"

\* no scanCount / queryCount call was made
cntIdle ==
    /\ cntSelect = NoSelect
    /\ cntPages = <<>>
    /\ cntIdx = 0
    /\ count = 0

Init == retryIdle /\ glIdle /\ cntIdle

\* put, update, delete (lines 113-129): retryInternalServerError around the store call
StartSingle(o) ==
    /\ pc = "idle"
    /\ op' = o
    /\ pc' = "store"
    /\ stack' = FramesFor(o, 0)
    /\ result' = Pending
    /\ events' = <<Ev("call", <<>>)>>
    /\ request' = <<>>
    /\ batches' = <<>>
    /\ batchIdx' = 0
    /\ startSchedule' = retryWaitTimes
    /\ changes' = 0
    /\ startRequest' = <<>>
    /\ UNCHANGED <<retryWaitTimes, glVars, cntVars>>

\* transactWrite (lines 137-141): the conflict loop around the server-error loop
StartTransactWrite ==
    /\ pc = "idle"
    /\ op' = "transactWrite"
    /\ pc' = "store"
    /\ stack' = FramesFor("transactWrite", 0)
    /\ result' = Pending
    /\ events' = <<Ev("call", <<>>)>>
    /\ request' = <<>>
    /\ batches' = <<>>
    /\ batchIdx' = 0
    /\ startSchedule' = retryWaitTimes
    /\ changes' = 0
    /\ startRequest' = <<>>
    /\ UNCHANGED <<retryWaitTimes, glVars, cntVars>>

\* RequestItems merged into: the entries of the earlier batches kept
ObjectAssignMerged(requestItems, batch) == requestItems \o batch

\* line 133: Object.assign(request, {RequestItems: batch}), the RequestItems of
\* the caller's request object after it
ObjectAssign(requestItems, batch) == batch

\* batchWrite (lines 131-135): split once, then send the first batch
StartBatchWrite(req) ==
    /\ pc = "idle"
    /\ op' = "batchWrite"
    /\ startSchedule' = retryWaitTimes
    /\ changes' = 0
    /\ startRequest' = req
    /\ LET bs == splitBatchWriteRequestsInChunks(req)
       IN  /\ batches' = bs
           /\ IF bs = <<>>
              THEN /\ pc' = "done"
                   /\ stack' = <<>>
                   /\ result' = Resolved(Undefined)
                   /\ events' = <<>>
                   /\ request' = req
                   /\ batchIdx' = 0
              ELSE /\ pc' = "store"
                   /\ stack' = FramesFor("batchWrite", 0)
                   /\ result' = Pending
                   /\ events' = <<Ev("call", ObjectAssign(req, bs[1]))>>
                   /\ request' = ObjectAssign(req, bs[1])
                   /\ batchIdx' = 1
    /\ UNCHANGED <<retryWaitTimes, glVars, cntVars>>

\* the result of execution() awaited and dropped
ReturnsNothing(o, out) == Undefined

\* what the call resolves with once the store has answered `out`: put, update and
\* delete return retryError's result (line 163), batchWrite and transactWrite
\* are Promise<void>
ReturnValue(o, out) ==
    IF o \in SingleOps THEN out ELSE Undefined

\* batchWrite after a failed batch, were the failure swallowed
NextBatchAfterError(r) ==
    IF r.pc = "done" /\ op = "batchWrite" /\ batchIdx < Len(batches)
    THEN [stack |-> FramesFor("batchWrite", 0),
          events |-> Append(r.events, Ev("call", batches[batchIdx + 1])),
          pc |-> "store",
          result |-> Pending]
    ELSE r

\* how a rejection of the retry-wrapped call ends the top-level call (line 133:
\* the await rethrows, batchWrite's loop is left)
AfterError(r) == r

\* the store call succeeds: retryError returns its result (line 163)
StoreSucceeds ==
    /\ pc = "store"
    /\ LET out == [output |-> NumCalls(events)]
           evs == Append(events, Ev("ok", out))
       IN  IF op = "batchWrite" /\ batchIdx < Len(batches)
           THEN /\ batchIdx' = batchIdx + 1
                /\ request' = ObjectAssign(request, batches[batchIdx + 1])
                /\ stack' = FramesFor("batchWrite", 0)
                /\ events' = Append(evs, Ev("call", ObjectAssign(request, batches[batchIdx + 1])))
                /\ pc' = "store"
                /\ result' = Pending
           ELSE /\ pc' = "done"
                /\ stack' = <<>>
                /\ events' = evs
                /\ result' = Resolved(ReturnValue(op, out))
                /\ UNCHANGED <<batchIdx, request>>
    /\ UNCHANGED <<retryWaitTimes, op, batches, startSchedule, changes, startRequest,
                   glVars, cntVars>>

\* the store call fails with e: the catch blocks run (lines 164-175)
StoreFails(e) ==
    /\ pc = "store"
    /\ LET r == AfterError(retryErrorCatch(stack, e, Append(events, Ev("fail", e)),
                                           retryWaitTimes))
       IN  /\ stack' = r.stack
           /\ events' = r.events
           /\ pc' = r.pc
           /\ result' = r.result
           /\ IF r.pc = "store"   \* only were batchWrite's loop to go on
              THEN /\ batchIdx' = batchIdx + 1
                   /\ request' = batches[batchIdx + 1]
              ELSE UNCHANGED <<batchIdx, request>>
    /\ UNCHANGED <<retryWaitTimes, op, batches, startSchedule, changes, startRequest,
                   glVars, cntVars>>

\* the backoff timer fires: retryError calls itself with tryCount + 1 (line 171)
WaitElapses ==
    /\ pc = "wait"
    /\ LET f == stack[Len(stack)]
           outer == SubSeq(stack, 1, Len(stack) - 1)
       IN  stack' = outer \o (IF f.cls = "transaction"
                              THEN FramesFor("transactWrite", f.tryCount + 1)
                              ELSE <<Frame(f.cls, f.tryCount + 1)>>)
    /\ pc' = "store"
    /\ IF op = "batchWrite"
       THEN /\ request' = ObjectAssign(request, batches[batchIdx])
            /\ events' = Append(events, Ev("call", ObjectAssign(request, batches[batchIdx])))
       ELSE /\ request' = request
            /\ events' = Append(events, Ev("call", <<>>))
    /\ UNCHANGED <<retryWaitTimes, op, result, batches, batchIdx, startSchedule,
                   changes, startRequest, glVars, cntVars>>

\* the caller assigns the public field retryWaitTimes (line 54)
SetRetryWaitTimes(s) ==
    /\ s # retryWaitTimes
    /\ \/ pc = "idle" /\ changes' = changes
       \/ pc \in {"store", "wait"} /\ changes < MaxChanges /\ changes' = changes + 1
    /\ retryWaitTimes' = s
    /\ UNCHANGED <<op, pc, stack, result, events, request, batches, batchIdx,
                   startSchedule, startRequest, glVars, cntVars>>

\* the caller has taken the settled promise: the facade is idle again
Settle ==
    /\ pc = "done"
    /\ op' = "none"
    /\ pc' = "idle"
    /\ result' = Pending
    /\ events' = <<>>
    /\ request' = <<>>
    /\ batches' = <<>>
    /\ batchIdx' = 0
    /\ startSchedule' = retryWaitTimes
    /\ changes' = 0
    /\ startRequest' = <<>>
    /\ UNCHANGED <<retryWaitTimes, stack, glVars, cntVars>>

Next ==
    \/ \E o \in SingleOps : StartSingle(o)
    \/ StartTransactWrite
    \/ \E req \in BatchWriteInputs : StartBatchWrite(req)
    \/ StoreSucceeds
    \/ \E e \in StoreErrors : StoreFails(e)
    \/ WaitElapses
    \/ \E s \in Schedules : SetRetryWaitTimes(s)
    \/ Settle

Spec == Init /\ [][Next]_vars

\* the store answers every call (line 163: the awaited promise settles)
StoreAnswers == StoreSucceeds \/ \E e \in StoreErrors : StoreFails(e)

\* Spec with a store whose calls always complete and timers that fire (line 170)
SpecFair == Spec /\ WF_vars(StoreAnswers) /\ WF_vars(WaitElapses)

----------------------------------------------------------------------------
(* SpecSplit: splitBatchWriteRequestsInChunks on every request over three  *)
(* tables, in every Object.keys order, with up to MaxPerTable entries each *)

TableOrders ==
    { <<1, 2, 3>>, <<1, 3, 2>>, <<2, 1, 3>>, <<2, 3, 1>>, <<3, 1, 2>>, <<3, 2, 1>> }

SplitInputs ==
    { MkRequest(order, lens) : order \in TableOrders, lens \in [1..3 -> 0..MaxPerTable] }

SplitInit ==
    /\ retryWaitTimes = DefaultRetryWaitTimes
    /\ op = "none"
    /\ pc = "idle"
    /\ stack = <<>>
    /\ result = Pending
    /\ events = <<>>
    /\ request \in SplitInputs
    /\ batches = <<>>
    /\ batchIdx = 0
    /\ startSchedule = DefaultRetryWaitTimes
    /\ changes = 0
    /\ startRequest = <<>>
    /\ glIdle
    /\ cntIdle

\* batches = PoweredDynamo.splitBatchWriteRequestsInChunks(request)
Split ==
    /\ pc = "idle"
    /\ batches' = splitBatchWriteRequestsInChunks(request)
    /\ pc' = "done"
    /\ UNCHANGED <<retryWaitTimes, op, stack, result, events, request, batchIdx,
                   startSchedule, changes, startRequest, glVars, cntVars>>

SplitNext == Split

SpecSplit == SplitInit /\ [][SplitNext]_vars

----------------------------------------------------------------------------
(* getList.  A key is a function from attribute names to values, an item a *)
(* function with the key's attributes and more.                            *)

Key(i) == [id |-> i]
Item(i) == [id |-> i, payload |-> "stored"]

\* Object.keys(key1).every((k) => key2[k] === key1[k])
sameKey(key1, key2) ==
    \A k \in DOMAIN key1 : k \in DOMAIN key2 /\ key2[k] = key1[k]

\* the callback of the reduce (lines 181-183): keep `key` unless `output` has it
filterStep(output, key) ==
    IF \E j \in 1..Len(output) : sameKey(key, output[j])
    THEN output
    ELSE output \o <<key>>

RECURSIVE reduceKeys(_, _, _, _)
\* arrArg.reduce(callback, output) over the elements lo..hi, left to right.  The
\* range is halved, and the accumulator after the left half is a value before
\* the right half runs, which keeps the evaluation shallow; the order is the
\* array's.
reduceKeys(arrArg, lo, hi, output) ==
    IF lo > hi THEN output
    ELSE IF lo = hi THEN filterStep(output, arrArg[lo])
    ELSE CHOOSE acc \in
            { reduceKeys(arrArg, (lo + hi) \div 2 + 1, hi, left) :
                 left \in { reduceKeys(arrArg, lo, (lo + hi) \div 2, output) } } : TRUE

filterRepeatedKeys(arrArg) == reduceKeys(arrArg, 1, Len(arrArg), <<>>)

\* the groups the loop of line 73 makes: i = 0, 100, 200, ...
GroupCount(uniqueKeys) == (Len(uniqueKeys) + maxBatchGetElems - 1) \div maxBatchGetElems

\* slices one key too long, so that neighbours overlap
KeysBatchOverlapping(uniqueKeys, g) ==
    Slice(uniqueKeys, (g - 1) * maxBatchGetElems, maxBatchGetElems + 1)

\* line 76: uniqueKeys.slice(i, i + maxBatchGetElems) for group g (1-based)
KeysBatch(uniqueKeys, g) == Slice(uniqueKeys, (g - 1) * maxBatchGetElems, maxBatchGetElems)

\* documentClient.batchGet: the stored items of the requested keys, in the
\* order of the request
BatchGetResponse(table, keysBatch) ==
    LET found == SelectSeq(keysBatch, LAMBDA key : \E item \in table : item.id = key.id)
    IN  [i \in 1..Len(found) |-> CHOOSE item \in table : item.id = found[i].id]

\* response.Responses[tableName].find((item) => sameKey(key, item))
Find(items, key) ==
    IF \E j \in 1..Len(items) : sameKey(key, items[j])
    THEN items[CHOOSE j \in 1..Len(items) :
                  /\ sameKey(key, items[j])
                  /\ \A j2 \in 1..(j - 1) : ~sameKey(key, items[j2])]
    ELSE Undefined

\* the result set for the deduplicated keys alone: a repeat, another object, has
\* no entry
SetAllFirstOccurrences(resultMap, keys, items) ==
    [p \in 1..Len(keys) |->
        IF \E q \in 1..(p - 1) : sameKey(keys[p], keys[q])
        THEN Undefined
        ELSE Find(items, keys[p])]

\* lines 81-83: for (const key of keys) result.set(key, <find in this response>)
SetAll(resultMap, keys, items) == [p \in 1..Len(keys) |-> Find(items, keys[p])]

\* result.get(keys[p]) of the Map, which is empty until a group has answered
ResultAt(resultMap, p) == IF p \in DOMAIN resultMap THEN resultMap[p] ELSE Undefined

----------------------------------------------------------------------------
(* SpecGet: getList on key lists at the group boundaries *)

KeyCounts == { n \in 0..MaxKeys : n <= 2 \/ n % maxBatchGetElems \in {0, 1, maxBatchGetElems - 1} }

\* n distinct keys, then the first d of them again
KeyList(n, d) == [p \in 1..(n + d) |-> IF p <= n THEN Key(p) ELSE Key(p - n)]

\* n distinct keys, each of the first d twice in a row
KeyListDoubled(n, d) ==
    [p \in 1..(n + d) |-> IF p <= 2 * d THEN Key((p + 1) \div 2) ELSE Key(p - d)]

\* n distinct keys from the highest id down, then the first d of them again
KeyListDescending(n, d) ==
    [p \in 1..(n + d) |-> IF p <= n THEN Key(n + 1 - p) ELSE Key(2 * n + 1 - p)]

KeyLists ==
    UNION { { KeyList(n, d) : d \in 0..Min(n, MaxRepeats) }
            \cup { KeyListDoubled(n, d) : d \in 1..Min(n, MaxRepeats) }
            \cup { KeyListDescending(n, d) : d \in 0..Min(n, MaxRepeats) }
          : n \in KeyCounts }

\* what the store holds: every item, none, or the items of odd id
StoredTables ==
    { {Item(i) : i \in 1..MaxKeys}, {}, {Item(i) : i \in {j \in 1..MaxKeys : j % 2 = 1}} }

GetErrors == {InternalServerError, ValidationException}

GetInit ==
    /\ retryIdle
    /\ glKeys \in KeyLists
    /\ glTable \in StoredTables
    /\ glUnique = <<>>
    /\ glGroups = <<>>
    /\ glResult = <<>>
    /\ glPc = "idle"
    /\ glError = Undefined
    /\ glCalls = <<>>
    /\ cntIdle

\* getList up to its await (lines 70-90): the keys deduplicated, every group's
\* batchGet issued
GetList ==
    /\ glPc = "idle"
    /\ LET uniqueKeys == filterRepeatedKeys(glKeys)
       IN  /\ glUnique' = uniqueKeys
           /\ glCalls' = [g \in 1..GroupCount(uniqueKeys) |-> KeysBatch(uniqueKeys, g)]
           /\ glGroups' = [g \in 1..GroupCount(uniqueKeys) |-> "sent"]
           /\ glPc' = IF GroupCount(uniqueKeys) = 0 THEN "resolved" ELSE "running"
    /\ glResult' = <<>>
    /\ UNCHANGED <<retryVars, cntVars, glKeys, glTable, glError>>

\* the batchGet of group g is answered (lines 80-84); Promise.all resolves with
\* the last group
GroupSucceeds(g) ==
    /\ glGroups[g] = "sent"
    /\ glResult' = SetAll(glResult, glKeys, BatchGetResponse(glTable, glCalls[g]))
    /\ glGroups' = [glGroups EXCEPT ![g] = "ok"]
    /\ glPc' = IF glPc = "running" /\ \A h \in DOMAIN glGroups : h # g => glGroups[h] = "ok"
               THEN "resolved" ELSE glPc
    /\ UNCHANGED <<retryVars, cntVars, glKeys, glTable, glUnique, glError, glCalls>>

\* the batchGet of group g fails (lines 85-87): Promise.all rejects with the
\* first failure
GroupFails(g, e) ==
    /\ glGroups[g] = "sent"
    /\ glGroups' = [glGroups EXCEPT ![g] = "failed"]
    /\ IF glPc = "running"
       THEN glPc' = "rejected" /\ glError' = e
       ELSE UNCHANGED <<glPc, glError>>
    /\ UNCHANGED <<retryVars, cntVars, glKeys, glTable, glUnique, glResult, glCalls>>

GetNext ==
    \/ GetList
    \/ \E g \in DOMAIN glGroups : GroupSucceeds(g)
    \/ \E g \in DOMAIN glGroups, e \in GetErrors : GroupFails(g, e)

SpecGet == GetInit /\ [][GetNext]_vars

----------------------------------------------------------------------------
(* scanCount and queryCount.  The generator of dynamo-iterator is what the   *)
(* for await of sumCountResponses sees of it: the responses it yields, in    *)
(* order, then its end, or an error thrown in place of the next response.    *)

CountOps == {"scanCount", "queryCount"}

\* the values of input.Select
Selects == {"COUNT", "ALL_ATTRIBUTES", "SPECIFIC_ATTRIBUTES", NoSelect}

\* a response of the count scan or query
Page(c) == [Count |-> c]

PageCounts == {0, 3, 8}

\* the finite response sequences of up to MaxPages responses
PageSequences == UNION { [1..n -> {Page(c) : c \in PageCounts}] : n \in 0..MaxPages }

\* what assert.equal throws
AssertionError(message) == Err(TRUE, "AssertionError", <<message>>)

\* the message of the assertion of scanCount (line 104) and queryCount (line 109)
AssertMessage(o) ==
    IF o = "scanCount" THEN "For count scan Select must be \"count\""
    ELSE "For count query Select must be \"count\""

\* the assertion passes for a missing Select as well
SelectIsCountOrMissing(select) == select = "COUNT" \/ select = NoSelect

\* assert.equal(input.Select, 'COUNT', ...)
SelectIsCount(select) == select = "COUNT"

\* count = response.Count: the last response alone
AccumulateLast(c, response) == response.Count

\* line 48: count += response.Count
Accumulate(c, response) == c + response.Count

CountInit ==
    /\ retryIdle
    /\ glIdle
    /\ cntSelect \in Selects
    /\ cntPages \in PageSequences
    /\ cntIdx = 0
    /\ count = 0

\* scanCount / queryCount up to the first await (lines 103-111, 46-47): the
\* assertion, then the generator made and its first response asked for
StartCount(o) ==
    /\ pc = "idle"
    /\ op' = o
    /\ IF SelectIsCount(cntSelect)
       THEN /\ pc' = "count"
            /\ result' = Pending
            /\ events' = <<Ev("generator", o)>>
       ELSE /\ pc' = "done"
            /\ result' = Rejected(AssertionError(AssertMessage(o)))
            /\ events' = <<>>
    /\ cntIdx' = 0
    /\ count' = 0
    /\ UNCHANGED <<retryWaitTimes, stack, request, batches, batchIdx, startSchedule,
                   changes, startRequest, glVars, cntSelect, cntPages>>

\* the generator yields its next response: the body of the loop (line 48)
PageArrives ==
    /\ pc = "count"
    /\ cntIdx < Len(cntPages)
    /\ count' = Accumulate(count, cntPages[cntIdx + 1])
    /\ cntIdx' = cntIdx + 1
    /\ events' = Append(events, Ev("page", cntPages[cntIdx + 1]))
    /\ UNCHANGED <<retryWaitTimes, op, pc, stack, result, request, batches, batchIdx,
                   startSchedule, changes, startRequest, glVars, cntSelect, cntPages>>

\* the generator is done: return count (line 51)
GeneratorEnds ==
    /\ pc = "count"
    /\ cntIdx = Len(cntPages)
    /\ pc' = "done"
    /\ result' = Resolved(count)
    /\ UNCHANGED <<retryWaitTimes, op, stack, events, request, batches, batchIdx,
                   startSchedule, changes, startRequest, glVars, cntVars>>

\* the generator throws e in place of its next response: the for await rethrows,
\* nothing catches
GeneratorThrows(e) ==
    /\ pc = "count"
    /\ cntIdx < Len(cntPages)
    /\ pc' = "done"
    /\ result' = Rejected(e)
    /\ events' = Append(events, Ev("fail", e))
    /\ UNCHANGED <<retryWaitTimes, op, stack, request, batches, batchIdx,
                   startSchedule, changes, startRequest, glVars, cntVars>>

CountNext ==
    \/ \E o \in CountOps : StartCount(o)
    \/ PageArrives
    \/ GeneratorEnds
    \/ \E e \in GetErrors : GeneratorThrows(e)

SpecCount == CountInit /\ [][CountNext]_vars

----------------------------------------------------------------------------
(* Reading the log of a call *)

Num(evs, type) == Cardinality({i \in 1..Len(evs) : evs[i].type = type})

\* the waits of the log, in order
WaitsOf(evs) ==
    LET w == SelectSeq(evs, LAMBDA e : e.type = "wait")
    IN  [i \in 1..Len(w) |-> w[i].arg]

\* the errors the store failed with, in order
FailuresOf(evs) ==
    LET f == SelectSeq(evs, LAMBDA e : e.type = "fail")
    IN  [i \in 1..Len(f) |-> f[i].arg]

IsPrefix(s, t) == Len(s) <= Len(t) /\ \A i \in 1..Len(s) : s[i] = t[i]

\* every failure of the store so far was a transient server error
OnlyServerErrors(evs) ==
    \A i \in 1..Len(evs) : evs[i].type = "fail" => evs[i].arg = InternalServerError

\* the last position of the log that ends a run of the server-error loop before
\* position i: a success, or a failure that loop does not retry (0 when none)
RunStart(evs) ==
    LET ends == {i \in 1..Len(evs) :
                    \/ evs[i].type = "ok"
                    \/ evs[i].type = "fail" /\ ~isInternalServerError(evs[i].arg)}
    IN  IF ends = {} THEN 0 ELSE CHOOSE i \in ends : \A j \in ends : j <= i

\* the failures of the server-error loop that ran last
ServerLoopFailures(evs) ==
    Cardinality({i \in (RunStart(evs) + 1)..Len(evs) : evs[i].type = "fail"})

\* the failures the conflict loop of transactWrite retried or gave up on
ConflictLoopFailures(evs) ==
    Cardinality({i \in 1..Len(evs) :
                    evs[i].type = "fail" /\ isRetryableTransactionError(evs[i].arg)})

\* the last error a notification carried
LastEmitted(evs) ==
    LET em == {i \in 1..Len(evs) : evs[i].type = "emit"}
    IN  evs[CHOOSE i \in em : \A j \in em : j <= i].arg

----------------------------------------------------------------------------
(* Claims about the retry machine, checked under Spec *)

\* C1: put/update/delete with a schedule of length N that is not changed during
\* the call, every store call failing with InternalServerError: the store is
\* called at most N+1 times, the waits are the schedule's slots in order, and
\* the call ends exactly at the (N+1)-th call, rejected with MaxRetriesReached.
C1_ExhaustsAfterNPlusOneCalls ==
    (op \in SingleOps /\ changes = 0 /\ OnlyServerErrors(events) /\ Num(events, "ok") = 0)
    => LET N == Len(startSchedule)
       IN  /\ Num(events, "call") <= N + 1
           /\ IsPrefix(WaitsOf(events), startSchedule)
           /\ Len(WaitsOf(events)) = Min(Num(events, "fail"), N)
           /\ Num(events, "fail") = N + 1 => pc = "done"
           /\ pc = "done" =>
                /\ result = Rejected(MaxRetriesReached)
                /\ Num(events, "call") = N + 1
                /\ WaitsOf(events) = startSchedule

\* put with the 3-slot default schedule ran out of retries at its 4th call
C1_Witness ==
    /\ op = "put" /\ pc = "done" /\ changes = 0
    /\ Len(startSchedule) = 3
    /\ OnlyServerErrors(events)
    /\ Num(events, "call") = 4
    /\ result = Rejected(MaxRetriesReached)

\* C2 as stated: with a schedule of length N (unchanged during the call),
\* MaxRetriesReached is raised on the (N+2)-th failure of the operation.
C2_Original_RaisedOnFailureNPlusTwo ==
    (op \in SingleOps /\ changes = 0 /\ result = Rejected(MaxRetriesReached))
    => Num(events, "fail") = Len(startSchedule) + 2

\* C2 amended: with a schedule of length N (unchanged during the call), a retry
\* loop that raises MaxRetriesReached does so on its (N+1)-th failure, after
\* exactly N retries (N waits), and no loop has more than N+1 failures.
C2_RaisedOnFailureNPlusOne ==
    (pc # "idle" /\ changes = 0)
    => LET N == Len(startSchedule)
       IN  /\ ServerLoopFailures(events) <= N + 1
           /\ ConflictLoopFailures(events) <= N + 1
           /\ (op \in SingleOps /\ result = Rejected(MaxRetriesReached)) =>
                /\ Num(events, "fail") = N + 1
                /\ Num(events, "call") - 1 = N
                /\ Num(events, "wait") = N
           /\ (op \in {"batchWrite", "transactWrite"}
                 /\ result = Rejected(MaxRetriesReached)) =>
                IF isInternalServerError(LastEmitted(events))
                THEN ServerLoopFailures(events) = N + 1
                ELSE ConflictLoopFailures(events) = N + 1

\* update under the schedule <<1, 2>>: MaxRetriesReached on the third failure
C2_Witness ==
    /\ op = "update" /\ changes = 0
    /\ startSchedule = <<1, 2>>
    /\ result = Rejected(MaxRetriesReached)
    /\ Num(events, "fail") = 3

\* no classifier around the raw store call of the running operation accepts e
RejectedByAll(e) ==
    /\ ~isInternalServerError(e)
    /\ op = "transactWrite" => ~isRetryableTransactionError(e)

\* C3: a failure the classifier rejects ends the call at once with that same
\* error: nothing is emitted for it, no wait and no store call follows, and the
\* call is not rejected with MaxRetriesReached.  In transactWrite the error the
\* inner loop rejects reaches the outer loop unchanged, and the inner loop's
\* MaxRetriesReached, which the outer classifier rejects, ends the call as it is.
C3_NonRetryablePropagatesUnchanged ==
    /\ \A i \in 1..Len(events) :
          (events[i].type = "fail" /\ RejectedByAll(events[i].arg)) =>
             /\ i = Len(events)
             /\ pc = "done"
             /\ result = Rejected(events[i].arg)
             /\ result # Rejected(MaxRetriesReached)
    /\ \A i \in 1..Len(events) :
          (events[i].type = "fail" /\ op = "transactWrite"
             /\ isRetryableTransactionError(events[i].arg)) =>
             (i < Len(events) /\ events[i + 1] = Ev("emit", events[i].arg))
    /\ \A i \in 1..Len(events) :
          events[i].type = "emit" =>
             /\ events[i].arg # MaxRetriesReached
             /\ i > 1 /\ events[i - 1] = Ev("fail", events[i].arg)

\* delete failed with a validation error on its second attempt
C3_Witness ==
    /\ op = "delete" /\ pc = "done"
    /\ FailuresOf(events) = <<InternalServerError, ValidationException>>
    /\ result = Rejected(ValidationException)

\* C4: put/update/delete whose first k store calls fail with
\* InternalServerError and whose next call succeeds resolves with the output of
\* that call, after k+1 store calls and k notifications, k at most N when the
\* schedule is not changed; a success always ends the call.
C4_SucceedsAfterKRetries ==
    op \in SingleOps =>
       /\ \A i \in 1..Len(events) :
             events[i].type = "ok" =>
                /\ i = Len(events)
                /\ pc = "done"
                /\ result = Resolved(events[i].arg)
       /\ result.status = "resolved" =>
             LET k == Num(events, "fail")
             IN  /\ OnlyServerErrors(events)
                 /\ Num(events, "call") = k + 1
                 /\ Num(events, "emit") = k
                 /\ result.value = [output |-> k + 1]
                 /\ changes = 0 => k <= Len(startSchedule)

\* put failed once with InternalServerError, then succeeded
C4_Witness ==
    /\ op = "put" /\ result.status = "resolved"
    /\ FailuresOf(events) = <<InternalServerError>>
    /\ Num(events, "emit") = 1
    /\ Num(events, "call") = 2

IsCancelled(e) == e.name = "TransactionCanceledException"

\* C5: transactWrite never retries a cancelled transaction whose reasons hold a
\* conditional-check failure (with or without a conflict): it is the last
\* thing the call does, and the first store call is the only one when it fails
\* so.  A cancelled transaction is notified (and so retried) only when its
\* reasons hold a conflict and no conditional-check failure, and then always;
\* one such conflict followed by a success is one retry and a resolved call.
C5_ConditionalCheckNeverRetried ==
    op = "transactWrite" =>
       /\ \A i \in 1..Len(events) :
             (events[i].type = "fail" /\ IsCancelled(events[i].arg)
                /\ Test("ConditionalCheckFailed", events[i].arg.message)) =>
                /\ i = Len(events)
                /\ pc = "done"
                /\ result = Rejected(events[i].arg)
                /\ Num(events, "fail") = 1 => Num(events, "call") = 1
       /\ \A i \in 1..Len(events) :
             (events[i].type = "emit" /\ IsCancelled(events[i].arg)) =>
                /\ Test("TransactionConflict", events[i].arg.message)
                /\ ~Test("ConditionalCheckFailed", events[i].arg.message)
       /\ \A i \in 1..Len(events) :
             (events[i].type = "fail" /\ IsCancelled(events[i].arg)
                /\ Test("TransactionConflict", events[i].arg.message)
                /\ ~Test("ConditionalCheckFailed", events[i].arg.message)) =>
                /\ i < Len(events) /\ events[i + 1] = Ev("emit", events[i].arg)
                /\ (changes = 0 /\ ConflictLoopFailures(SubSeq(events, 1, i))
                                     <= Len(startSchedule))
                      => (i + 1 < Len(events) /\ events[i + 2].type = "wait")
       /\ (pc = "done" /\ Num(events, "ok") = 1
             /\ FailuresOf(events) = <<TransactionCanceled(<<"TransactionConflict">>)>>) =>
                /\ result = Resolved(Undefined)
                /\ Num(events, "call") = 2
                /\ Num(events, "wait") = 1

\* a transaction cancelled for a failed condition and a conflict: one store call
C5_Witness ==
    /\ op = "transactWrite" /\ pc = "done"
    /\ result = Rejected(TransactionCanceled(<<"ConditionalCheckFailed", "TransactionConflict">>))
    /\ Num(events, "call") = 1

\* the other case of C5, reachable as well: one conflict, one retry, success
C5_RetriedOnce ==
    /\ op = "transactWrite" /\ result = Resolved(Undefined)
    /\ FailuresOf(events) = <<TransactionCanceled(<<"TransactionConflict">>)>>
    /\ Num(events, "call") = 2

\* C6 as stated: a call in flight keeps the schedule it started with, however
\* retryWaitTimes is replaced meanwhile: its waits are the first slots of that
\* schedule, and it gives up on failure N+1, N the length of that schedule.
C6_InFlightLoopKeepsStartSchedule ==
    (op \in SingleOps /\ pc # "idle")
    => LET N == Len(startSchedule)
       IN  /\ IsPrefix(WaitsOf(events), startSchedule)
           /\ Num(events, "fail") <= N + 1
           /\ result = Rejected(MaxRetriesReached) => Num(events, "fail") = N + 1

\* the number of the batch the store call at position i of the log carries
BatchOfCall(evs, i) == 1 + Num(SubSeq(evs, 1, i - 1), "ok")

\* C9: batchWrite sends its batches one after another.  The store call at any
\* position carries batch b+1, b the number of batch calls that succeeded before
\* it; a store call is issued only right after the previous one succeeded or
\* after the wait that followed its failure, so at most one is in flight; a
\* rejected batchWrite sent nothing after the failing batch, rejects with
\* MaxRetriesReached or the non-retryable error, and the batches that succeeded
\* stay sent; a resolved batchWrite sent every batch.
C9_BatchesSentOneAfterAnother ==
    op = "batchWrite" =>
       /\ \A i \in 1..Len(events) :
             events[i].type = "call" =>
                /\ BatchOfCall(events, i) <= Len(batches)
                /\ events[i].arg = batches[BatchOfCall(events, i)]
                /\ i > 1 => events[i - 1].type \in {"ok", "wait"}
       /\ Num(events, "call") - Num(events, "ok") - Num(events, "fail")
             = (IF pc = "store" THEN 1 ELSE 0)
       /\ result.status = "rejected" =>
             /\ pc = "done"
             /\ events[Len(events)].type \in {"fail", "emit"}
             /\ Num(events, "ok") = batchIdx - 1
             /\ batchIdx <= Len(batches)
             /\ \/ result.value = MaxRetriesReached
                \/ /\ events[Len(events)] = Ev("fail", result.value)
                   /\ ~isInternalServerError(result.value)
       /\ result.status = "resolved" =>
             /\ pc = "done"
             /\ Num(events, "ok") = Len(batches)
       /\ pc = "done" => result.status # "pending"

\* three batches: the first sent, the second failed, the third never sent
C9_Witness ==
    /\ op = "batchWrite" /\ Len(batches) = 3
    /\ result = Rejected(ValidationException)
    /\ Num(events, "ok") = 1
    /\ batchIdx = 2

\* the cause a rejection value carries, Undefined when it carries none
CauseOf(error) == IF "cause" \in DOMAIN error THEN error.cause ELSE Undefined

\* C16 as stated: the MaxRetriesReached a call is rejected with identifies its
\* cause: the last retryable error, the one that found the schedule exhausted,
\* can be read from the error value.
C16_MaxRetriesReachedIdentifiesCause ==
    (pc = "done" /\ result.status = "rejected" /\ result.value.name = "MaxRetriesReached")
    => CauseOf(result.value) = LastEmitted(events)

\* the last failure of the log the conflict loop retries (0 when none)
LastConflict(evs) ==
    LET cs == {i \in 1..Len(evs) :
                  evs[i].type = "fail" /\ isRetryableTransactionError(evs[i].arg)}
    IN  IF cs = {} THEN 0 ELSE CHOOSE i \in cs : \A j \in cs : j <= i

\* the transient server errors since the outer attempt under way began
InnerFailures(evs) ==
    Cardinality({i \in (LastConflict(evs) + 1)..Len(evs) :
                    evs[i].type = "fail" /\ isInternalServerError(evs[i].arg)})

\* C17: in transactWrite the outer index is the number of transaction conflicts
\* so far and the inner index the number of transient server errors since the
\* last conflict: while the store call runs the two loops stand at exactly these
\* indexes, a wait after a server error leaves the outer index alone, a wait
\* after a conflict is the outer loop's alone, and with an unchanged schedule
\* each wait is the slot of the waiting loop's own index.
C17_NestedLoopsCountApart ==
    (op = "transactWrite" /\ pc \in {"store", "wait"}) =>
       LET outerIdx == ConflictLoopFailures(events)
           innerIdx == InnerFailures(events)
       IN  /\ pc = "store" =>
                 stack = <<Frame("transaction", outerIdx), Frame("server", innerIdx)>>
           /\ (pc = "wait" /\ innerIdx > 0) =>
                 /\ stack = <<Frame("transaction", outerIdx), Frame("server", innerIdx - 1)>>
                 /\ changes = 0 => events[Len(events)] = Ev("wait", startSchedule[innerIdx])
           /\ (pc = "wait" /\ innerIdx = 0) =>
                 /\ stack = <<Frame("transaction", outerIdx - 1)>>
                 /\ changes = 0 => events[Len(events)] = Ev("wait", startSchedule[outerIdx])

\* two server errors, a conflict, then a server error again: the inner loop waits
\* its first slot anew, the outer loop stands at 1
C17_Witness ==
    /\ op = "transactWrite" /\ pc = "wait" /\ changes = 0
    /\ startSchedule = <<1, 2>>
    /\ FailuresOf(events) = <<InternalServerError, InternalServerError,
                              TransactionCanceled(<<"TransactionConflict">>),
                              InternalServerError>>
    /\ WaitsOf(events) = <<1, 2, 1, 1>>
    /\ stack = <<Frame("transaction", 1), Frame("server", 0)>>

\* C18 as stated: every notification is followed by a backoff wait and a
\* further attempt, and a call emits as many notifications as it makes retries.
C18_Original_EveryEmitFollowedByRetry ==
    /\ \A i \in 1..Len(events) :
          events[i].type = "emit" => (i < Len(events) /\ events[i + 1].type = "wait")
    /\ Num(events, "emit") = Num(events, "wait")

\* C18 amended: the notification is fired for every failure a loop's classifier
\* accepts, right after it and carrying it, before the schedule is looked at.
\* It is followed by a wait and a further store call, except the notification
\* of the failure that finds no slot, which is the last thing the call does
\* before it is rejected with MaxRetriesReached: the notifications are the
\* retries, plus one when the call ends in MaxRetriesReached.
C18_EmitForEveryRetryableFailure ==
    pc # "idle" =>
       /\ \A i \in 1..Len(events) :
             events[i].type = "emit" =>
                /\ i > 1 /\ events[i - 1] = Ev("fail", events[i].arg)
                /\ \/ /\ i < Len(events)
                      /\ events[i + 1].type = "wait"
                      /\ IF i + 1 < Len(events)
                         THEN events[i + 2].type = "call"
                         ELSE pc = "wait"
                   \/ /\ i = Len(events)
                      /\ pc = "done"
                      /\ result = Rejected(MaxRetriesReached)
       /\ \A i \in 1..Len(events) :
             (events[i].type = "fail"
                /\ \/ isInternalServerError(events[i].arg)
                   \/ op = "transactWrite" /\ isRetryableTransactionError(events[i].arg))
             => (i < Len(events) /\ events[i + 1] = Ev("emit", events[i].arg))
       /\ \A i \in 1..Len(events) :
             events[i].type = "wait" => (i > 1 /\ events[i - 1].type = "emit")
       /\ Num(events, "emit")
             = Num(events, "wait") + (IF result = Rejected(MaxRetriesReached) THEN 1 ELSE 0)
       /\ Num(events, "wait") - (IF pc = "wait" THEN 1 ELSE 0)
             = Cardinality({i \in 2..Len(events) :
                               events[i].type = "call" /\ events[i - 1].type = "wait"})

\* put under the schedule <<1>>: two failures, two notifications, one retry
C18_Witness ==
    /\ op = "put" /\ pc = "done" /\ changes = 0
    /\ startSchedule = <<1>>
    /\ result = Rejected(MaxRetriesReached)
    /\ Num(events, "emit") = 2
    /\ Num(events, "wait") = 1
    /\ Num(events, "call") = 2

\* a put, update, delete or transactWrite under way whose schedule was not changed
InFlightUnchanged ==
    /\ op \in SingleOps \cup {"transactWrite"}
    /\ pc \in {"store", "wait"}
    /\ changes = 0

\* with a schedule of length N unchanged during the call: put, update and delete
\* make at most N+1 store calls, transactWrite at most (N+1)*(N+1)
CallsWithinBound ==
    (changes = 0 /\ pc # "idle") =>
       LET N == Len(startSchedule)
       IN  /\ op \in SingleOps => Num(events, "call") <= N + 1
           /\ op = "transactWrite" => Num(events, "call") <= (N + 1) * (N + 1)

\* a transient server error of transactWrite that no wait followed is where the
\* inner loop gave up: the outer loop, which does not retry MaxRetriesReached,
\* notified nothing, waited for nothing and ended the call with it
InnerMaxRetriesEndsCall ==
    op = "transactWrite" =>
       \A i \in 1..Len(events) :
          (/\ events[i].type = "emit"
           /\ isInternalServerError(events[i].arg)
           /\ i < Len(events) => events[i + 1].type # "wait")
          => /\ i = Len(events)
             /\ pc = "done"
             /\ result = Rejected(MaxRetriesReached)
             /\ changes = 0 => InnerFailures(events) = Len(startSchedule) + 1

\* C19: when the store answers every call and the timers fire, a put, update,
\* delete or transactWrite whose schedule is not changed meanwhile completes,
\* within N+1 store calls ((N+1)*(N+1) for transactWrite), and the inner loop's
\* MaxRetriesReached ends transactWrite without an outer retry.
C19_CallsCompleteWithinBound ==
    /\ []CallsWithinBound
    /\ []InnerMaxRetriesEndsCall
    /\ InFlightUnchanged ~> (pc = "done" \/ changes > 0)

\* transactWrite under <<1, 2>>: 9 store calls, the last conflict exhausting the
\* outer loop
C19_Witness ==
    /\ op = "transactWrite" /\ pc = "done" /\ changes = 0
    /\ startSchedule = <<1, 2>>
    /\ Num(events, "call") = 9
    /\ result = Rejected(MaxRetriesReached)

----------------------------------------------------------------------------
(* Claims about splitBatchWriteRequestsInChunks, checked under SpecSplit *)

RECURSIVE TotalEntries(_, _)
\* the entries of the properties k.. of a RequestItems object
TotalEntries(requestItems, k) ==
    IF k > Len(requestItems) THEN 0
    ELSE Len(requestItems[k].items) + TotalEntries(requestItems, k + 1)

\* the entries table t has in a RequestItems object, <<>> when it has none
EntriesOf(requestItems, t) ==
    IF \E k \in 1..Len(requestItems) : requestItems[k].table = t
    THEN requestItems[CHOOSE k \in 1..Len(requestItems) : requestItems[k].table = t].items
    ELSE <<>>

RECURSIVE ConcatOf(_, _, _)
\* the entries of table t in the batches b.., concatenated in batch order
ConcatOf(bs, t, b) ==
    IF b > Len(bs) THEN <<>>
    ELSE EntriesOf(bs[b], t) \o ConcatOf(bs, t, b + 1)

\* C7: a request of M entries is split into ceil(M/25) batches (none for
\* M = 0), each of 1 to 25 entries over all its tables, all but the last of 25.
C7_CeilingOfMOver25Batches ==
    pc = "done" =>
       LET M == TotalEntries(request, 1)
       IN  /\ Len(batches) = (M + 24) \div 25
           /\ \A b \in 1..Len(batches) :
                 /\ TotalEntries(batches[b], 1) >= 1
                 /\ TotalEntries(batches[b], 1) <= 25
                 /\ b < Len(batches) => TotalEntries(batches[b], 1) = 25
           /\ Len(batches) > 0 =>
                 TotalEntries(batches[Len(batches)], 1) = M - 25 * (Len(batches) - 1)

\* 51 entries over three tables: two full batches and a last batch of one
C7_Witness ==
    /\ pc = "done"
    /\ TotalEntries(request, 1) = 51
    /\ \A k \in 1..Len(request) : request[k].items # <<>>
    /\ Len(batches) = 3
    /\ TotalEntries(batches[3], 1) = 1

\* C8: for every table of the request, its entries in the batches, concatenated
\* in batch order, are its entries in the request; the batches hold no other
\* table, no table twice, and no table without entries.
C8_ConcatenationReproducesEachTable ==
    pc = "done" =>
       /\ \A k \in 1..Len(request) :
             ConcatOf(batches, request[k].table, 1) = request[k].items
       /\ \A b \in 1..Len(batches) : \A j \in 1..Len(batches[b]) :
             /\ \E k \in 1..Len(request) : request[k].table = batches[b][j].table
             /\ batches[b][j].items # <<>>
             /\ \A j2 \in 1..Len(batches[b]) :
                   batches[b][j2].table = batches[b][j].table => j2 = j

\* a table whose entries lie in two batches, several in each
C8_Witness ==
    /\ pc = "done"
    /\ Len(batches) >= 2
    /\ \E k \in 1..Len(request) :
          /\ Len(EntriesOf(batches[1], request[k].table)) >= 2
          /\ Len(EntriesOf(batches[2], request[k].table)) >= 2

----------------------------------------------------------------------------
(* batchWrite over the split of its request, checked under Spec *)

\* the positions of the log that hold a store call
CallPositions(evs) == {i \in 1..Len(evs) : evs[i].type = "call"}

\* the entries of table t in the store calls of the log that succeeded, in order
RECURSIVE SentOf(_, _, _)
SentOf(evs, t, i) ==
    IF i >= Len(evs) THEN <<>>
    ELSE (IF evs[i].type = "call" /\ evs[i + 1].type = "ok"
          THEN EntriesOf(evs[i].arg, t) ELSE <<>>)
         \o SentOf(evs, t, i + 1)

\* C20: the batches of a batchWrite are the split of the request it was called
\* with, whatever RequestItems of the request object holds meanwhile; every
\* store call carries the batch in turn, and RequestItems is left holding the
\* batch of the last call; a call after a wait carries what the call before it
\* carried; a resolved batchWrite passed every entry of the original request to
\* the store in exactly one successful call, and without failures in exactly
\* one call.
C20_BatchesOfTheOriginalRequest ==
    op = "batchWrite" =>
       /\ batches = splitBatchWriteRequestsInChunks(startRequest)
       /\ \A i \in CallPositions(events) :
             /\ events[i].arg = batches[BatchOfCall(events, i)]
             /\ (i > 1 /\ events[i - 1].type = "wait") =>
                   \E j \in CallPositions(events) :
                      /\ j < i
                      /\ \A k \in (j + 1)..(i - 1) : events[k].type # "call"
                      /\ events[j].arg = events[i].arg
       /\ events # <<>> =>
             request = events[CHOOSE i \in CallPositions(events) :
                                 \A j \in CallPositions(events) : j <= i].arg
       /\ events = <<>> => request = startRequest
       /\ result.status = "resolved" =>
             /\ \A k \in 1..Len(startRequest) :
                   SentOf(events, startRequest[k].table, 1) = startRequest[k].items
             /\ Num(events, "ok") = Len(batches)
             /\ Num(events, "fail") = 0 =>
                   /\ Num(events, "call") = Len(batches)
                   /\ \A b \in 1..Len(batches) : events[2 * b - 1] = Ev("call", batches[b])

\* 52 entries in three batches, the second sent twice: resolved, RequestItems
\* left holding the last batch
C20_Witness ==
    /\ op = "batchWrite" /\ result.status = "resolved"
    /\ TotalEntries(startRequest, 1) = 52
    /\ Len(batches) = 3
    /\ Num(events, "call") = 4
    /\ events[3].type = "call" /\ events[4].type = "fail"
    /\ request = batches[3] /\ request # startRequest

----------------------------------------------------------------------------
(* Claims about getList, checked under SpecGet *)

\* the items the groups' responses hold, all groups together: every group asks
\* for its keys, so these are the stored items of the deduplicated keys
AllResponseItems ==
    { item \in glTable :
         \E g \in DOMAIN glCalls : \E j \in 1..Len(glCalls[g]) : glCalls[g][j].id = item.id }

\* C10: a resolved getList maps every input key to the item matching it among
\* the response items of all groups, and to absent only when no group returned
\* one, whatever the number of groups and the order they completed in.
C10_EveryKeyMappedToItsItem ==
    glPc = "resolved" =>
       \A p \in 1..Len(glKeys) :
          IF \E item \in AllResponseItems : sameKey(glKeys[p], item)
          THEN /\ ResultAt(glResult, p) # Undefined
               /\ ResultAt(glResult, p) \in AllResponseItems
               /\ sameKey(glKeys[p], ResultAt(glResult, p))
          ELSE ResultAt(glResult, p) = Undefined

\* C11 as stated: a group's batchGet is retried on a transient server error, so
\* that error never reaches the caller as it is: getList is rejected for it only
\* with MaxRetriesReached, after at least one retryable-error notification.
C11_GroupRetriedOnServerError ==
    glPc = "rejected" =>
       /\ ~isInternalServerError(glError)
       /\ glError = MaxRetriesReached => Num(events, "emit") >= 1

\* the first position of the key list that holds `key`
FirstPos(keys, key) ==
    CHOOSE p \in 1..Len(keys) : keys[p] = key /\ \A q \in 1..(p - 1) : keys[q] # key

\* C12: getList queries the deduplicated keys only (no two of them equal, every
\* input key equal to one of them) and a resolved getList answers every input
\* key: two input keys that are equal get the same answer, a key whose item the
\* store does not hold is mapped to absent, and no error was raised for it.
C12_RepeatsGetTheSameAnswer ==
    /\ glPc # "idle" =>
          /\ \A g \in DOMAIN glCalls : \A j \in 1..Len(glCalls[g]) :
                \E k \in 1..Len(glUnique) : glCalls[g][j] = glUnique[k]
          /\ Len(glUnique) <= Len(glKeys)
    /\ glPc = "resolved" =>
          /\ glError = Undefined
          /\ \A p \in 1..Len(glKeys) :
                /\ ResultAt(glResult, p) = ResultAt(glResult, FirstPos(glKeys, glKeys[p]))
                /\ (\A item \in glTable : ~sameKey(glKeys[p], item))
                      => ResultAt(glResult, p) = Undefined
          /\ \A p \in 1..Len(glKeys) : \A q \in 1..MaxRepeats :
                (p + q <= Len(glKeys) /\ sameKey(glKeys[p], glKeys[p + q]))
                   => ResultAt(glResult, p) = ResultAt(glResult, p + q)

\* keys 1, 2, 1, 2 against a store that holds item 1 alone: both 1s found, both
\* 2s absent
C12_Witness ==
    /\ glPc = "resolved"
    /\ glKeys = KeyList(2, 2)
    /\ ResultAt(glResult, 1) = Item(1) /\ ResultAt(glResult, 3) = Item(1)
    /\ ResultAt(glResult, 2) = Undefined /\ ResultAt(glResult, 4) = Undefined

\* C13: right after getList has issued its calls, U = uniqueKeys holds no key
\* twice, holds every input key, in the order of the first occurrences; there
\* are ceil(|U|/100) batchGet calls, each of 1 to 100 keys, all but the last of
\* 100, and call g carries U[100(g-1)+1 .. 100g]: every key of U once.
C13_CallsAreConsecutiveSlices ==
    (glPc # "idle" /\ \A g \in DOMAIN glGroups : glGroups[g] = "sent") =>
       LET U == glUnique
       IN  /\ \A j \in 1..Len(U) : \A k \in (j + 1)..Len(U) :
                 ~sameKey(U[j], U[k]) /\ ~sameKey(U[k], U[j])
           /\ \A p \in 1..Len(glKeys) : \E k \in 1..Len(U) : sameKey(glKeys[p], U[k])
           /\ \A k \in 1..Len(U) : \E p \in 1..Len(glKeys) : glKeys[p] = U[k]
           /\ \A k \in 1..(Len(U) - 1) : FirstPos(glKeys, U[k]) < FirstPos(glKeys, U[k + 1])
           /\ Len(glCalls) = (Len(U) + 99) \div 100
           /\ \A g \in 1..Len(glCalls) :
                 /\ Len(glCalls[g]) >= 1
                 /\ Len(glCalls[g]) <= 100
                 /\ g < Len(glCalls) => Len(glCalls[g]) = 100
                 /\ \A j \in 1..Len(glCalls[g]) :
                       /\ 100 * (g - 1) + j <= Len(U)
                       /\ glCalls[g][j] = U[100 * (g - 1) + j]
           /\ Len(glCalls) > 0 =>
                 Len(glCalls[Len(glCalls)]) = Len(U) - 100 * (Len(glCalls) - 1)

\* 101 distinct keys, two of them doubled: a call of 100 keys and a call of one
C13_Witness ==
    /\ glPc = "running"
    /\ glKeys = KeyListDoubled(101, 2)
    /\ Len(glUnique) = 101
    /\ Len(glCalls) = 2
    /\ Len(glCalls[1]) = 100 /\ Len(glCalls[2]) = 1
    /\ glCalls[2] = <<Key(101)>>

----------------------------------------------------------------------------
(* Claims about scanCount and queryCount, checked under SpecCount *)

RECURSIVE SumOfCounts(_, _)
\* the sum of the Count fields of the first n responses
SumOfCounts(pages, n) ==
    IF n = 0 THEN 0 ELSE SumOfCounts(pages, n - 1) + pages[n].Count

\* C14: a count call with Select = 'COUNT' consumes the responses of the
\* generator one by one in order, each once, its count being the sum of the
\* Count fields consumed so far; it resolves only once the generator is done,
\* with the sum over all responses (0 for none; 11 for counts 3 and 8).
C14_SumOfAllPagesInOrder ==
    (op \in CountOps /\ cntSelect = "COUNT") =>
       /\ count = SumOfCounts(cntPages, cntIdx)
       /\ cntIdx <= Len(cntPages)
       /\ Len(events) >= 1 /\ events[1] = Ev("generator", op)
       /\ Num(events, "page") = cntIdx
       /\ \A i \in 1..cntIdx : events[i + 1] = Ev("page", cntPages[i])
       /\ result.status = "resolved" =>
             /\ pc = "done"
             /\ cntIdx = Len(cntPages)
             /\ result.value = SumOfCounts(cntPages, Len(cntPages))
             /\ cntPages = <<>> => result.value = 0
             /\ cntPages = <<Page(3), Page(8)>> => result.value = 11
       /\ (pc = "done" /\ Num(events, "fail") = 0) => result.status = "resolved"

\* scanCount over the responses with counts 3 and 8 resolved with 11
C14_Witness ==
    /\ op = "scanCount" /\ pc = "done"
    /\ cntPages = <<Page(3), Page(8)>>
    /\ result = Resolved(11)
    /\ Num(events, "page") = 2

\* C15: a count call whose Select is missing or not 'COUNT' is rejected by the
\* assertion at once: the generator is never made, no response is consumed,
\* nothing is notified, waited for or retried; with Select = 'COUNT' the call
\* is never rejected by the assertion.
C15_NonCountSelectFailsFirst ==
    op \in CountOps =>
       /\ cntSelect # "COUNT" =>
             /\ pc = "done"
             /\ result = Rejected(AssertionError(AssertMessage(op)))
             /\ events = <<>>
             /\ cntIdx = 0 /\ count = 0
             /\ stack = <<>>
             /\ ~isInternalServerError(result.value)
       /\ cntSelect = "COUNT" =>
             (result.status = "rejected" => result.value.name # "AssertionError")
       /\ Num(events, "emit") = 0 /\ Num(events, "wait") = 0 /\ Num(events, "call") = 0

\* queryCount without Select, the generator having responses to give: rejected
\* with none of them consumed
C15_Witness ==
    /\ op = "queryCount" /\ pc = "done"
    /\ cntSelect = NoSelect
    /\ Len(cntPages) = 2
    /\ result = Rejected(AssertionError(AssertMessage("queryCount")))
    /\ events = <<>>

====
